---------------------------- MODULE Spec2Model ----------------------------
(* A model of coreference_matcher.py: the recognizer classes               *)
(* (IndonesianCoreferenceRecognizer, MultiLanguageCoreferenceRecognizer,   *)
(* RuleBasedEnglishCoreferenceRecognizer), the English phrase builder and  *)
(* the pronoun dispatch.  A Python str is a sequence of one-character      *)
(* strings, so that str.join, str.split and str.replace are computed as    *)
(* Python computes them.                                                   *)
EXTENDS Naturals, Sequences, FiniteSets, TLC

VARIABLES english, indonesian, multi, lastCall, calls, dispatches, phrase

vars == <<english, indonesian, multi, lastCall, calls, dispatches, phrase>>

-----------------------------------------------------------------------------
(* Python values *)

\* None where a str is expected; no str equals it (its element is not a character)
NoneStr == <<"None">>

\* None where an object (a context, a query context) is expected
NoneObj == [none |-> TRUE]

\* "not s" for s a str or None
FalsyStr(s) == s = NoneStr \/ s = <<>>

\* sep.join(parts)
RECURSIVE Join(_, _)
Join(sep, parts) ==
    IF parts = <<>> THEN <<>>
    ELSE IF Len(parts) = 1 THEN parts[1]
    ELSE parts[1] \o sep \o Join(sep, Tail(parts))

\* s.find(p) + 1: where p first occurs in s, 0 if nowhere (p non-empty)
Find(s, p) ==
    LET at == { i \in 1..(Len(s) + 1 - Len(p)) : SubSeq(s, i, i + Len(p) - 1) = p }
    IN  IF Len(s) < Len(p) \/ at = {} THEN 0
        ELSE CHOOSE i \in at : \A j \in at : i <= j

\* s.replace(old, new): every non-overlapping occurrence, left to right (old non-empty)
RECURSIVE Replace(_, _, _)
Replace(s, old, new) ==
    LET From(i) ==
            IF i = 0 THEN s
            ELSE SubSeq(s, 1, i - 1) \o new \o Replace(SubSeq(s, i + Len(old), Len(s)), old, new)
    IN  From(Find(s, old))

\* s.split(sep) for a one-character sep
RECURSIVE Split(_, _)
Split(s, sep) ==
    IF \A i \in 1..Len(s) : <<s[i]>> # sep THEN <<s>>
    ELSE LET i == CHOOSE j \in 1..Len(s) : <<s[j]>> = sep /\ \A k \in 1..(j - 1) : <<s[k]>> # sep
         IN  <<SubSeq(s, 1, i - 1)>> \o Split(SubSeq(s, i + 1, Len(s)), sep)

-----------------------------------------------------------------------------
(* The class constants *)

_SPACE == <<" ">>
_ITEM_SEPERATOR == <<" ", "o", "r", " ">>
_PARENTHESES == << <<"(">>, <<")">> >>
_PRESUMPTIVE_SINGULAR_START_PHRASE == <<"T", "h", "e", "r", "e", " ", "i", "s", " ", "a">>
_SENTENCE_SEPERATOR == <<".", " ">>
_WITH_PREPOSITION == <<"w", "i", "t", "h">>

_COMMON_OBJECT_PRONOUNS == {}
_COMMON_PERSON_PRONOUNS ==
    { <<"y", "o", "u">>, <<"y", "o", "u", "r">>, <<"y", "o", "u", "r", "s">> }
_COMMON_PLURAL_PRONOUNS ==
    { <<"t", "h", "e", "y">>, <<"t", "h", "e", "i", "r">>, <<"t", "h", "e", "m">>,
      <<"t", "h", "e", "i", "r", "s">> }
_COMMON_SINGULAR_PRONOUNS == { <<"i", "t">>, <<"i", "t", "s">> }
_PLURAL_OBJECT_PRONOUNS == {}
_PLURAL_PERSON_PRONOUNS ==
    { <<"o", "u", "r">>, <<"o", "u", "r", "s">>, <<"w", "e">>, <<"u", "s">> }
_PLURAL_PRONOUNS ==
    _COMMON_PLURAL_PRONOUNS \cup _PLURAL_OBJECT_PRONOUNS \cup _PLURAL_PERSON_PRONOUNS
_SINGULAR_OBJECT_PRONOUNS == {}
_SINGULAR_PERSON_PRONOUNS ==
    { <<"i">>, <<"m", "e">>, <<"m", "i", "n", "e">>, <<"h", "e">>, <<"h", "i", "m">>,
      <<"h", "i", "s">>, <<"s", "h", "e">>, <<"h", "e", "r">>, <<"h", "e", "r", "s">> }
_SINGULAR_PRONOUNS ==
    _COMMON_SINGULAR_PRONOUNS \cup _SINGULAR_OBJECT_PRONOUNS \cup _SINGULAR_PERSON_PRONOUNS

-----------------------------------------------------------------------------
(* The collaborators: the spaCy model and Matcher, inflection.pluralize *)

\* the lemma spaCy gives every pronoun
PRON == <<"-", "P", "R", "O", "N", "-">>

\* the tokens of self._spacy_model(text): the text split at its spaces
Doc(text) == IF text = <<>> THEN <<>> ELSE Split(text, _SPACE)

\* the words spaCy tags as pronouns
Pronouns == _SINGULAR_PRONOUNS \cup _PLURAL_PRONOUNS \cup _COMMON_PERSON_PRONOUNS

\* token.lemma_: -PRON- for a pronoun, the word itself otherwise
Lemma(token) == IF token \in Pronouns THEN PRON ELSE token

\* doc[start:end].text, end exclusive, tokens numbered from 1
SpanText(doc, start, end) == Join(_SPACE, SubSeq(doc, start, end - 1))

\* whether the pattern of LEMMA tokens matches doc at token start
MatchesAt(doc, pattern, start) ==
    /\ start + Len(pattern) - 1 <= Len(doc)
    /\ \A k \in 1..Len(pattern) : Lemma(doc[start + k - 1]) = pattern[k]

\* matcher(doc) for a Matcher holding the patterns: the (start, end) of every
\* match, in document order
RECURSIVE MatchesFrom(_, _, _)
MatchesFrom(doc, patterns, start) ==
    IF start > Len(doc) THEN <<>>
    ELSE LET lens == { Len(p) : p \in { q \in patterns : MatchesAt(doc, q, start) } }
             RECURSIVE Spans(_)
             Spans(ls) == IF ls = {} THEN <<>>
                          ELSE LET l == CHOOSE x \in ls : \A y \in ls : x <= y
                               IN  << <<start, start + l>> >> \o Spans(ls \ {l})
         IN  Spans(lens) \o MatchesFrom(doc, patterns, start + 1)

Matches(doc, patterns) == MatchesFrom(doc, patterns, 1)

\* inflection.pluralize on the nouns used here: the irregular person, else +s
Pluralize(noun) ==
    IF noun = <<"p", "e", "r", "s", "o", "n">> THEN <<"p", "e", "o", "p", "l", "e">>
    ELSE noun \o <<"s">>

-----------------------------------------------------------------------------
(* AbstractEnglishCoreferenceRecognizer: the phrase builder *)

\* _item_patterns(item_name): one pattern, -PRON- then the words of the name
_item_patterns(item_name) == { <<PRON>> \o Split(item_name, _SPACE) }

\* the closure query_context_items_phrase of _prepare_dialog_items_from_query_context_items
RECURSIVE ItemPhrases(_, _, _)
ItemPhrases(item_name, item_values, attribute_reference) ==
    IF item_values = <<>> THEN <<>>
    ELSE LET item_phrase_tokens(query_context_item_phrase) ==
                 IF ~attribute_reference
                 THEN <<_WITH_PREPOSITION, query_context_item_phrase>>
                 ELSE <<query_context_item_phrase>>
         IN  <<Join(_SPACE, item_phrase_tokens(Join(_SPACE, <<item_name, Head(item_values)>>)))>>
                 \o ItemPhrases(item_name, Tail(item_values), attribute_reference)

query_context_items_phrase(item_name, item_values, attribute_reference, entity_name, presumptive) ==
    LET Single(tokens) ==
            IF attribute_reference THEN Join(_SPACE, tokens)
            ELSE entity_name \o _SPACE \o Join(_SPACE, tokens)
        Phrase(item_phrases) ==
            IF Len(item_values) = 1
            THEN Single(IF presumptive
                        THEN <<_PRESUMPTIVE_SINGULAR_START_PHRASE,
                               Join(_ITEM_SEPERATOR, item_phrases)>>
                        ELSE <<Join(_ITEM_SEPERATOR, item_phrases)>>)
            ELSE IF attribute_reference THEN Join(_ITEM_SEPERATOR, item_phrases)
            ELSE entity_name \o _SPACE \o Join(_ITEM_SEPERATOR, item_phrases)
    IN  Phrase(ItemPhrases(item_name, item_values, attribute_reference))

\* the phrases of a list of items, one per item
RECURSIVE PhrasesOf(_, _, _, _)
PhrasesOf(items, attribute_reference, entity_name, presumptive) ==
    IF items = <<>> THEN <<>>
    ELSE <<query_context_items_phrase(
               Head(items).name, Head(items).values, attribute_reference, entity_name, presumptive)>>
             \o PhrasesOf(Tail(items), attribute_reference, entity_name, presumptive)

\* the items whose pattern matches the utterance's doc, in their order
RECURSIVE MatchedItems(_, _)
MatchedItems(items, utterance_doc) ==
    IF items = <<>> THEN <<>>
    ELSE (IF Matches(utterance_doc, _item_patterns(Head(items).name)) # <<>>
          THEN <<Head(items)>> ELSE <<>>)
             \o MatchedItems(Tail(items), utterance_doc)

\* as _prepare_dialog_items_from_query_context_items, but falling back to the
\* query context's items, not to its primary key items
PrepareItems_FallBackToItems(utterance_doc, attribute_reference, entity_name, query_context, presumptive) ==
    LET Phrases(matched) ==
            IF matched # <<>>
            THEN PhrasesOf(matched, attribute_reference, entity_name, presumptive)
            ELSE PhrasesOf(query_context.items, attribute_reference, entity_name, presumptive)
    IN  Phrases(MatchedItems(query_context.items, utterance_doc))

\* _prepare_dialog_items_from_query_context_items: what it appends to dialog_items
_prepare_dialog_items_from_query_context_items(utterance_doc, attribute_reference, entity_name, query_context, presumptive) ==
    LET Phrases(matched) ==
            IF matched # <<>>
            THEN PhrasesOf(matched, attribute_reference, entity_name, presumptive)
            ELSE PhrasesOf(query_context.primaryKeyItems, attribute_reference, entity_name,
                           presumptive)
    IN  Phrases(MatchedItems(query_context.items, utterance_doc))

\* _prepare_dialog_item_from_filter_phrase: what it appends to dialog_items
_prepare_dialog_item_from_filter_phrase(pluralized_entity_name, plural_query_context) ==
    LET filter_phrase == plural_query_context.filterPhrase
    IN  IF FalsyStr(filter_phrase) THEN <<pluralized_entity_name>>
        ELSE <<Join(_SPACE, <<pluralized_entity_name, Join(filter_phrase, _PARENTHESES)>>)>>

\* as _prepare_plural_query_context_phrase, but with the filter phrase's item put
\* before the items' phrases
PreparePlural_FilterFirst(utterance_doc, plural_query_context, attribute_reference, presumptive) ==
    LET Items(pluralized_entity_name) ==
            _prepare_dialog_item_from_filter_phrase(pluralized_entity_name, plural_query_context)
              \o _prepare_dialog_items_from_query_context_items(
                     utterance_doc, attribute_reference, pluralized_entity_name,
                     plural_query_context, presumptive)
    IN  IF plural_query_context = NoneObj THEN <<>>
        ELSE Items(Pluralize(plural_query_context.entityName))

\* _prepare_plural_query_context_phrase: the dialog_items it leaves
_prepare_plural_query_context_phrase(utterance_doc, plural_query_context, attribute_reference, presumptive) ==
    LET Items(pluralized_entity_name) ==
            _prepare_dialog_items_from_query_context_items(
                utterance_doc, attribute_reference, pluralized_entity_name,
                plural_query_context, presumptive)
              \o _prepare_dialog_item_from_filter_phrase(pluralized_entity_name, plural_query_context)
    IN  IF plural_query_context = NoneObj THEN <<>>
        ELSE Items(Pluralize(plural_query_context.entityName))

\* _prepare_singular_query_context_phrase: the dialog_items it leaves
_prepare_singular_query_context_phrase(utterance_doc, singular_query_context, attribute_reference, presumptive) ==
    IF singular_query_context = NoneObj THEN <<>>
    ELSE _prepare_dialog_items_from_query_context_items(
             utterance_doc, attribute_reference, singular_query_context.entityName,
             singular_query_context, presumptive)

-----------------------------------------------------------------------------
(* RuleBasedEnglishCoreferenceRecognizer *)

\* _item_names(query_context): None is the empty set here, as the caller drops it
_item_names(query_context) ==
    IF query_context = NoneObj THEN {}
    ELSE IF query_context.items = <<>> THEN {}
    ELSE { query_context.items[i].name : i \in 1..Len(query_context.items) }

\* the texts of a list of (start, end) matches
RECURSIVE MatchedTexts(_, _)
MatchedTexts(doc, matches) ==
    IF matches = <<>> THEN <<>>
    ELSE <<SpanText(doc, Head(matches)[1], Head(matches)[2])>> \o MatchedTexts(doc, Tail(matches))

\* _match_item_patterns: the spans "<pronoun> <item name>" of the utterance
_match_item_patterns(coreference_context, utterance_doc) ==
    LET names == _item_names(coreference_context.pluralObjectQueryContext)
                     \cup _item_names(coreference_context.pluralPersonQueryContext)
                     \cup _item_names(coreference_context.singularObjectQueryContext)
                     \cup _item_names(coreference_context.singularPersonQueryContext)
        patterns == UNION { _item_patterns(n) : n \in names }
    IN  MatchedTexts(utterance_doc, Matches(utterance_doc, patterns))

\* _match_pronoun(text): the first pronoun of the text, or None
_match_pronoun(text) ==
    LET First(text_doc, matches) ==
            IF matches = <<>> THEN NoneStr
            ELSE SpanText(text_doc, matches[1][1], matches[1][2])
        In(text_doc) == First(text_doc, Matches(text_doc, { <<PRON>> }))
    IN  In(Doc(text))

\* _match_pronouns: the pronouns of the utterance, in order
_match_pronouns(utterance_doc) ==
    MatchedTexts(utterance_doc, Matches(utterance_doc, { <<PRON>> }))

\* _resolve_query_context: the new self._utterance
_resolve_query_context(utterance, dialog_items, matched_text) ==
    IF dialog_items = <<>> THEN utterance
    ELSE Replace(utterance, matched_text, dialog_items[1])

\* _resolve_pronouns, on st = the recognizer's utterance and the resolutions made
\* in this recognize call; number is "singular" or "plural", role "object" or "person"
_resolve_pronouns(st, doc, attribute_reference, number, role, query_context, matched_text) ==
    LET Resolved(dialog_items, utterance) ==
            [utterance |-> utterance,
             log |-> Append(st.log,
                       [matched_text |-> matched_text,
                        attribute_reference |-> attribute_reference,
                        number |-> number, role |-> role, query_context |-> query_context,
                        dialog_items |-> dialog_items, before |-> st.utterance,
                        after |-> utterance])]
        With(dialog_items) ==
            Resolved(dialog_items, _resolve_query_context(st.utterance, dialog_items, matched_text))
    IN  With(IF number = "plural"
             THEN _prepare_plural_query_context_phrase(doc, query_context, attribute_reference, FALSE)
             ELSE _prepare_singular_query_context_phrase(doc, query_context, attribute_reference, FALSE))

_recognize_plural_pronouns(st, doc, ctx, matched_text, pronoun, attribute_reference) ==
    LET Person(s1) ==
            IF pronoun \notin _PLURAL_OBJECT_PRONOUNS
            THEN _resolve_pronouns(s1, doc, attribute_reference, "plural", "person",
                                   ctx.pluralPersonQueryContext, matched_text)
            ELSE s1
    IN  IF pronoun \notin _PLURAL_PRONOUNS THEN st
        ELSE Person(IF pronoun \notin _PLURAL_PERSON_PRONOUNS
                    THEN _resolve_pronouns(st, doc, attribute_reference, "plural", "object",
                                           ctx.pluralObjectQueryContext, matched_text)
                    ELSE st)

\* as _recognize_singular_pronouns, but without the test that keeps a person
\* pronoun from the object query context
RecognizeSingular_NoPersonTest(st, doc, ctx, matched_text, pronoun, attribute_reference) ==
    LET Person(s1) ==
            IF pronoun \notin _SINGULAR_OBJECT_PRONOUNS
            THEN _resolve_pronouns(s1, doc, attribute_reference, "singular", "person",
                                   ctx.singularPersonQueryContext, matched_text)
            ELSE s1
    IN  IF pronoun \notin _SINGULAR_PRONOUNS THEN st
        ELSE Person(_resolve_pronouns(st, doc, attribute_reference, "singular", "object",
                                      ctx.singularObjectQueryContext, matched_text))

_recognize_singular_pronouns(st, doc, ctx, matched_text, pronoun, attribute_reference) ==
    LET Person(s1) ==
            IF pronoun \notin _SINGULAR_OBJECT_PRONOUNS
            THEN _resolve_pronouns(s1, doc, attribute_reference, "singular", "person",
                                   ctx.singularPersonQueryContext, matched_text)
            ELSE s1
    IN  IF pronoun \notin _SINGULAR_PRONOUNS THEN st
        ELSE Person(IF pronoun \notin _SINGULAR_PERSON_PRONOUNS
                    THEN _resolve_pronouns(st, doc, attribute_reference, "singular", "object",
                                           ctx.singularObjectQueryContext, matched_text)
                    ELSE st)

_recognize_common_pronouns(st, doc, ctx, matched_text, pronoun, attribute_reference) ==
    _recognize_plural_pronouns(
        _recognize_singular_pronouns(st, doc, ctx, matched_text, pronoun, attribute_reference),
        doc, ctx, matched_text, pronoun, attribute_reference)

\* _recognize_attribute_references, over the matched texts still to handle
RECURSIVE _recognize_attribute_references(_, _, _, _)
_recognize_attribute_references(st, doc, ctx, matched_texts) ==
    IF matched_texts = <<>> THEN st
    ELSE _recognize_attribute_references(
             _recognize_common_pronouns(
                 st, doc, ctx, Head(matched_texts), _match_pronoun(Head(matched_texts)), TRUE),
             doc, ctx, Tail(matched_texts))

\* _recognize_entity_references, over the pronouns still to handle
RECURSIVE _recognize_entity_references(_, _, _, _)
_recognize_entity_references(st, doc, ctx, pronouns) ==
    IF pronouns = <<>> THEN st
    ELSE _recognize_entity_references(
             _recognize_common_pronouns(st, doc, ctx, Head(pronouns), Head(pronouns), FALSE),
             doc, ctx, Tail(pronouns))

\* RuleBasedEnglishCoreferenceRecognizer.recognize past its early return: the
\* instance it leaves and the resolutions it made
EnglishRecognizePresent(self, coreference_context, utterance) ==
    LET Done(doc, st) ==
            [self |-> [self EXCEPT !._utterance = st.utterance,
                                   !._utterance_doc = doc,
                                   !._coreference_context = coreference_context],
             log |-> st.log]
        Passes(doc) ==
            Done(doc,
                 _recognize_entity_references(
                     _recognize_attribute_references(
                         [utterance |-> utterance, log |-> <<>>], doc, coreference_context,
                         _match_item_patterns(coreference_context, doc)),
                     doc, coreference_context, _match_pronouns(doc)))
    IN  Passes(Doc(utterance))

\* RuleBasedEnglishCoreferenceRecognizer.recognize
EnglishRecognize(self, coreference_context, utterance) ==
    IF coreference_context = NoneObj
    THEN [self |-> [self EXCEPT !._utterance = utterance], log |-> <<>>]
    ELSE EnglishRecognizePresent(self, coreference_context, utterance)

-----------------------------------------------------------------------------
(* IndonesianCoreferenceRecognizer and MultiLanguageCoreferenceRecognizer *)

\* IndonesianCoreferenceRecognizer.recognize: the instance it leaves
IndonesianRecognize(self, coreference_context, utterance) ==
    [self EXCEPT !._utterance = utterance]

\* resolve(), the same in the three classes
resolve(self) == self._utterance

\* AbstractCoreferenceRecognizer.presumptive_reference_text()
presumptive_reference_text(self) == self._presumptive_reference_text

\* as MultiStep, but giving every recognizer the utterance the loop was given
MultiStep_SameUtterance(st, coreference_recognizer, coreference_context) ==
    LET After(english1, indonesian1, dispatches1, recognizer1) ==
            [english |-> english1,
             indonesian |-> indonesian1,
             utterance |-> st.utterance,
             _utterance |-> resolve(recognizer1),
             presumptive_reference_texts |->
                 IF FalsyStr(presumptive_reference_text(recognizer1))
                 THEN st.presumptive_reference_texts
                 ELSE Append(st.presumptive_reference_texts,
                             presumptive_reference_text(recognizer1)),
             dispatches |-> dispatches1,
             calls |-> Append(st.calls,
                         [recognizer |-> coreference_recognizer,
                          coreference_context |-> coreference_context,
                          utterance |-> st.utterance,
                          resolved |-> resolve(recognizer1)])]
        English(er) == After(er.self, st.indonesian, er.log, er.self)
        Indonesian(indonesian1) == After(st.english, indonesian1, st.dispatches, indonesian1)
    IN  IF coreference_recognizer = "english"
        THEN English(EnglishRecognize(st.english, coreference_context, st.utterance))
        ELSE Indonesian(IndonesianRecognize(st.indonesian, coreference_context, st.utterance))

\* one turn of the loop of MultiLanguageCoreferenceRecognizer.recognize, on
\* st = the two recognizer instances, the local utterance, self._utterance, the
\* presumptive texts gathered and the calls made
MultiStep(st, coreference_recognizer, coreference_context) ==
    LET After(english1, indonesian1, dispatches1, recognizer1) ==
            [english |-> english1,
             indonesian |-> indonesian1,
             utterance |-> resolve(recognizer1),
             _utterance |-> resolve(recognizer1),
             presumptive_reference_texts |->
                 IF FalsyStr(presumptive_reference_text(recognizer1))
                 THEN st.presumptive_reference_texts
                 ELSE Append(st.presumptive_reference_texts,
                             presumptive_reference_text(recognizer1)),
             dispatches |-> dispatches1,
             calls |-> Append(st.calls,
                         [recognizer |-> coreference_recognizer,
                          coreference_context |-> coreference_context,
                          utterance |-> st.utterance,
                          resolved |-> resolve(recognizer1)])]
        English(er) == After(er.self, st.indonesian, er.log, er.self)
        Indonesian(indonesian1) == After(st.english, indonesian1, st.dispatches, indonesian1)
    IN  IF coreference_recognizer = "english"
        THEN English(EnglishRecognize(st.english, coreference_context, st.utterance))
        ELSE Indonesian(IndonesianRecognize(st.indonesian, coreference_context, st.utterance))

\* the loop of MultiLanguageCoreferenceRecognizer.recognize over the recognizers left
RECURSIVE MultiLoop(_, _, _)
MultiLoop(st, recognizers, coreference_context) ==
    IF recognizers = <<>> THEN st
    ELSE MultiLoop(MultiStep(st, Head(recognizers), coreference_context),
                   Tail(recognizers), coreference_context)

\* MultiLanguageCoreferenceRecognizer.recognize past its early return, on
\* sys = the three instances and the resolutions of the English one
MultiRecognizePresent(sys, coreference_context, utterance) ==
    LET Done(st) ==
            [multi |-> [sys.multi EXCEPT
                            !._utterance = st._utterance,
                            !._presumptive_reference_text =
                                Join(_SPACE, st.presumptive_reference_texts)],
             english |-> st.english,
             indonesian |-> st.indonesian,
             dispatches |-> st.dispatches,
             calls |-> st.calls]
    IN  Done(MultiLoop(
                 [english |-> sys.english, indonesian |-> sys.indonesian,
                  utterance |-> utterance, _utterance |-> utterance,
                  presumptive_reference_texts |-> <<>>,
                  dispatches |-> sys.dispatches, calls |-> <<>>],
                 sys.multi._coreference_recognizers, coreference_context))

\* as MultiRecognize, but without the early return on an absent context
MultiRecognize_NoEarlyReturn(sys, coreference_context, utterance) ==
    MultiRecognizePresent(sys, coreference_context, utterance)

\* MultiLanguageCoreferenceRecognizer.recognize: the instances it leaves and the
\* calls it made on its recognizers
MultiRecognize(sys, coreference_context, utterance) ==
    IF coreference_context = NoneObj
    THEN [multi |-> [sys.multi EXCEPT !._utterance = utterance],
          english |-> sys.english,
          indonesian |-> sys.indonesian,
          dispatches |-> sys.dispatches,
          calls |-> <<>>]
    ELSE MultiRecognizePresent(sys, coreference_context, utterance)

-----------------------------------------------------------------------------
(* The inputs: query contexts, coreference contexts, utterances *)

Item(name, values) == [name |-> name, values |-> values]

QueryContext(entityName, items, primaryKeyItems, filterPhrase) ==
    [entityName |-> entityName, items |-> items, primaryKeyItems |-> primaryKeyItems,
     filterPhrase |-> filterPhrase]

W_product == <<"p", "r", "o", "d", "u", "c", "t">>
W_order == <<"o", "r", "d", "e", "r">>
W_person == <<"p", "e", "r", "s", "o", "n">>
W_color == <<"c", "o", "l", "o", "r">>
W_name == <<"n", "a", "m", "e">>
W_id == <<"i", "d">>
W_red == <<"r", "e", "d">>
W_bob == <<"b", "o", "b">>
W_over50 == <<"o", "v", "e", "r", " ", "$", "5", "0">>

\* product, item color = red, no primary key items
ProductColor == QueryContext(W_product, <<Item(W_color, <<W_red>>)>>, <<>>, NoneStr)
\* product, item color = red, primary key id = 1
ProductKeyed ==
    QueryContext(W_product, <<Item(W_color, <<W_red>>)>>, <<Item(W_id, <<<<"1">>>>)>>, NoneStr)
\* product whose items have no values
ProductNoValues ==
    QueryContext(W_product, <<Item(W_color, <<>>)>>, <<Item(W_id, <<>>)>>, NoneStr)
\* person, no items, primary key name = bob
PersonNamed == QueryContext(W_person, <<>>, <<Item(W_name, <<W_bob>>)>>, NoneStr)
\* order, no items, primary key id = 1 or 2, filter phrase "over $50"
OrderFiltered ==
    QueryContext(W_order, <<>>, <<Item(W_id, <<<<"1">>, <<"2">>>>)>>, W_over50)
\* order with nothing but a filter phrase
OrderFilterOnly == QueryContext(W_order, <<>>, <<>>, W_over50)
\* person, item name = bob, no primary key items, no filter phrase
PeopleNamed == QueryContext(W_person, <<Item(W_name, <<W_bob>>)>>, <<>>, <<>>)

CoreferenceContext(sp, so, pp, po) ==
    [singularPersonQueryContext |-> sp, singularObjectQueryContext |-> so,
     pluralPersonQueryContext |-> pp, pluralObjectQueryContext |-> po]

\* the contexts a caller passes
K_Empty == CoreferenceContext(NoneObj, NoneObj, NoneObj, NoneObj)
K_Orders == CoreferenceContext(NoneObj, NoneObj, NoneObj, OrderFiltered)
K_OrdersFilterOnly == CoreferenceContext(NoneObj, NoneObj, NoneObj, OrderFilterOnly)
K_Product == CoreferenceContext(NoneObj, ProductColor, NoneObj, NoneObj)
K_ProductKeyed == CoreferenceContext(NoneObj, ProductKeyed, NoneObj, NoneObj)
K_ProductNoValues == CoreferenceContext(NoneObj, ProductNoValues, NoneObj, NoneObj)
K_Person == CoreferenceContext(PersonNamed, NoneObj, NoneObj, NoneObj)
K_ProductAndPerson == CoreferenceContext(PersonNamed, ProductKeyed, NoneObj, NoneObj)
K_People == CoreferenceContext(NoneObj, NoneObj, PeopleNamed, NoneObj)
K_OrdersAndPeople == CoreferenceContext(NoneObj, NoneObj, PeopleNamed, OrderFiltered)
K_All == CoreferenceContext(PersonNamed, ProductKeyed, PeopleNamed, OrderFiltered)

Contexts ==
    { K_Empty, K_Orders, K_OrdersFilterOnly, K_Product, K_ProductKeyed, K_ProductNoValues,
      K_Person, K_ProductAndPerson, K_People, K_OrdersAndPeople, K_All }

ContextsOrNone == Contexts \cup {NoneObj}

U_ShowThem == <<"S", "h", "o", "w", " ", "t", "h", "e", "m">>
U_IsItAvailable ==
    <<"I", "s", " ", "i", "t", " ", "a", "v", "a", "i", "l", "a", "b", "l", "e">>
U_ItsColor ==
    <<"W", "h", "a", "t", " ", "a", "b", "o", "u", "t", " ", "i", "t", "s", " ", "c", "o", "l", "o", "r">>
U_ItFitsIt == <<"i", "t", " ", "f", "i", "t", "s", " ", "i", "t">>
U_WeLikeYou == <<"w", "e", " ", "l", "i", "k", "e", " ", "y", "o", "u">>
U_HeHasThem == <<"h", "e", " ", "h", "a", "s", " ", "t", "h", "e", "m">>
U_TheirName == <<"t", "h", "e", "i", "r", " ", "n", "a", "m", "e">>
U_ShowOrders == <<"S", "h", "o", "w", " ", "o", "r", "d", "e", "r", "s">>

Utterances ==
    { U_ShowThem, U_IsItAvailable, U_ItsColor, U_ItFitsIt, U_WeLikeYou, U_HeHasThem,
      U_TheirName, U_ShowOrders }

\* the contexts and utterances given to the recognizers when the three instances
\* run side by side
SystemContextsOrNone == {NoneObj, K_ProductKeyed, K_Orders}

SystemUtterances == {U_ItsColor, U_ShowThem}

\* the longest list of recognizers an orchestrator is given
MaxRecognizers == 2

Recognizers == {"english", "indonesian"}

-----------------------------------------------------------------------------
(* The state machine *)

NoPhrase == [fn |-> "none"]

\* RuleBasedEnglishCoreferenceRecognizer(spacy_model)
NewEnglish ==
    [_utterance |-> NoneStr, _presumptive_reference_text |-> NoneStr,
     _utterance_doc |-> NoneStr, _coreference_context |-> NoneObj]

\* IndonesianCoreferenceRecognizer()
NewIndonesian == [_utterance |-> NoneStr, _presumptive_reference_text |-> NoneStr]

\* MultiLanguageCoreferenceRecognizer()
NewMulti ==
    [_utterance |-> NoneStr, _presumptive_reference_text |-> NoneStr,
     _coreference_recognizers |-> <<>>]

Init ==
    /\ english = NewEnglish
    /\ indonesian = NewIndonesian
    /\ multi = NewMulti
    /\ lastCall = [op |-> "__init__"]
    /\ calls = <<>>
    /\ dispatches = <<>>
    /\ phrase = NoPhrase

Called(target, coreference_context, utterance) ==
    [op |-> "recognize", target |-> target, coreference_context |-> coreference_context,
     utterance |-> utterance]

\* MultiLanguageCoreferenceRecognizer.add_recognizer
AddRecognizer ==
    \E r \in Recognizers :
        /\ Len(multi._coreference_recognizers) < MaxRecognizers
        /\ multi' = [multi EXCEPT !._coreference_recognizers = Append(@, r)]
        /\ lastCall' = [op |-> "add_recognizer", target |-> "multi", recognizer |-> r]
        /\ UNCHANGED <<english, indonesian, calls, dispatches, phrase>>

\* MultiLanguageCoreferenceRecognizer.recognize
MultiRecognizeCall(contexts, utterances) ==
    \E c \in contexts, u \in utterances :
        LET Returned(r) ==
                /\ multi' = r.multi
                /\ english' = r.english
                /\ indonesian' = r.indonesian
                /\ dispatches' = r.dispatches
                /\ calls' = r.calls
        IN  /\ Returned(MultiRecognize(
                            [multi |-> multi, english |-> english, indonesian |-> indonesian,
                             dispatches |-> dispatches], c, u))
            /\ lastCall' = Called("multi", c, u)
            /\ UNCHANGED phrase

\* RuleBasedEnglishCoreferenceRecognizer.recognize, called directly
EnglishRecognizeCall(contexts, utterances) ==
    \E c \in contexts, u \in utterances :
        LET Returned(r) ==
                /\ english' = r.self
                /\ dispatches' = r.log
        IN  /\ Returned(EnglishRecognize(english, c, u))
            /\ lastCall' = Called("english", c, u)
            /\ UNCHANGED <<indonesian, multi, calls, phrase>>

\* IndonesianCoreferenceRecognizer.recognize, called directly
IndonesianRecognizeCall(contexts, utterances) ==
    \E c \in contexts, u \in utterances :
        /\ indonesian' = IndonesianRecognize(indonesian, c, u)
        /\ lastCall' = Called("indonesian", c, u)
        /\ UNCHANGED <<english, multi, calls, dispatches, phrase>>

\* the query contexts given to the phrase builder
QueryContexts ==
    { ProductColor, ProductKeyed, ProductNoValues, PersonNamed, OrderFiltered,
      OrderFilterOnly, PeopleNamed }

\* the closure query_context_items_phrase, called on one item
QueryContextItemsPhraseCall ==
    \E qc \in QueryContexts, attribute_reference \in BOOLEAN, presumptive \in BOOLEAN :
        \E i \in 1..Len(qc.items \o qc.primaryKeyItems) :
            LET item == (qc.items \o qc.primaryKeyItems)[i]
            IN  /\ phrase' = [fn |-> "query_context_items_phrase",
                              item_name |-> item.name, item_values |-> item.values,
                              attribute_reference |-> attribute_reference,
                              entity_name |-> qc.entityName, presumptive |-> presumptive,
                              result |-> query_context_items_phrase(
                                             item.name, item.values, attribute_reference,
                                             qc.entityName, presumptive)]
                /\ UNCHANGED <<english, indonesian, multi, lastCall, calls, dispatches>>

\* _prepare_singular_query_context_phrase, called on an empty dialog_items
PrepareSingularCall ==
    \E qc \in QueryContexts \cup {NoneObj}, u \in Utterances,
       attribute_reference \in BOOLEAN, presumptive \in BOOLEAN :
        /\ phrase' = [fn |-> "_prepare_singular_query_context_phrase",
                      query_context |-> qc, utterance |-> u,
                      attribute_reference |-> attribute_reference, presumptive |-> presumptive,
                      dialog_items |-> _prepare_singular_query_context_phrase(
                                           Doc(u), qc, attribute_reference, presumptive)]
        /\ UNCHANGED <<english, indonesian, multi, lastCall, calls, dispatches>>

\* _prepare_plural_query_context_phrase, called on an empty dialog_items
PreparePluralCall ==
    \E qc \in QueryContexts \cup {NoneObj}, u \in Utterances,
       attribute_reference \in BOOLEAN, presumptive \in BOOLEAN :
        /\ phrase' = [fn |-> "_prepare_plural_query_context_phrase",
                      query_context |-> qc, utterance |-> u,
                      attribute_reference |-> attribute_reference, presumptive |-> presumptive,
                      dialog_items |-> _prepare_plural_query_context_phrase(
                                           Doc(u), qc, attribute_reference, presumptive)]
        /\ UNCHANGED <<english, indonesian, multi, lastCall, calls, dispatches>>

\* the phrase builder alone
NextPhrase == QueryContextItemsPhraseCall \/ PrepareSingularCall \/ PreparePluralCall

SpecPhrase == Init /\ [][NextPhrase]_vars

\* the three instances side by side
Next ==
    \/ AddRecognizer
    \/ MultiRecognizeCall(SystemContextsOrNone, SystemUtterances)
    \/ EnglishRecognizeCall(SystemContextsOrNone, SystemUtterances)
    \/ IndonesianRecognizeCall(SystemContextsOrNone, SystemUtterances)

Spec == Init /\ [][Next]_vars

\* one English recognizer, over all the contexts and utterances
NextEnglish == EnglishRecognizeCall(ContextsOrNone, Utterances)

SpecEnglish == Init /\ [][NextEnglish]_vars

-----------------------------------------------------------------------------
(* The properties *)

\* the instance a call was made on
Instance(target) ==
    IF target = "multi" THEN multi ELSE IF target = "english" THEN english ELSE indonesian

RecognizeCalled == lastCall.op = "recognize"

\* s.startswith(p)
StartsWith(s, p) == Len(p) <= Len(s) /\ SubSeq(s, 1, Len(p)) = p

\* p in s, for strs
Contains(s, p) == p = <<>> \/ Find(s, p) # 0

\* s with only the first occurrence of old replaced by new
ReplaceFirst(s, old, new) ==
    LET i == Find(s, old)
    IN  IF i = 0 THEN s ELSE SubSeq(s, 1, i - 1) \o new \o SubSeq(s, i + Len(old), Len(s))

T_orders == <<"o", "r", "d", "e", "r", "s">>
T_id1orid2 == <<"i", "d", " ", "1", " ", "o", "r", " ", "i", "d", " ", "2">>
T_over50par == <<"(", "o", "v", "e", "r", " ", "$", "5", "0", ")">>
T_colorred == <<"c", "o", "l", "o", "r", " ", "r", "e", "d">>
T_ShowOrdersWith ==
    <<"S", "h", "o", "w", " ", "o", "r", "d", "e", "r", "s", " ", "w", "i", "t", "h",
      " ", "i", "d", " ", "1", " ", "o", "r", " ", "w", "i", "t", "h", " ", "i", "d",
      " ", "2">>
T_IsProductAvailable ==
    <<"I", "s", " ", "p", "r", "o", "d", "u", "c", "t", " ", "w", "i", "t", "h", " ",
      "i", "d", " ", "1", " ", "a", "v", "a", "i", "l", "a", "b", "l", "e">>

\* C1: recognize(None, U) then resolve() returns exactly U on the orchestrator, the
\* English and the Indonesian recognizer, whatever was called before, and the
\* orchestrator then calls none of its recognizers and leaves them as they were.
C1_AbsentContextSafety ==
    [][(lastCall'.op = "recognize" /\ lastCall'.coreference_context = NoneObj) =>
          /\ lastCall'.target = "multi" =>
                 /\ resolve(multi') = lastCall'.utterance
                 /\ calls' = <<>>
                 /\ UNCHANGED <<english, indonesian, dispatches>>
          /\ lastCall'.target = "english" => resolve(english') = lastCall'.utterance
          /\ lastCall'.target = "indonesian" => resolve(indonesian') = lastCall'.utterance]_vars

\* the orchestrator, holding recognizers that hold another utterance, was given an
\* absent context
C1_Witness ==
    /\ RecognizeCalled
    /\ lastCall.target = "multi"
    /\ lastCall.coreference_context = NoneObj
    /\ Len(multi._coreference_recognizers) = 2
    /\ resolve(english) \notin {NoneStr, lastCall.utterance}
    /\ resolve(indonesian) \notin {NoneStr, lastCall.utterance}
    /\ resolve(multi) = lastCall.utterance

\* C2: with a present context the orchestrator calls its recognizers once each, in
\* the order they were added, the first on U and each later one on what the one
\* before it resolved, and then resolves to what the last one resolves (U if none).
C2_OrchestratorThreading ==
    (RecognizeCalled /\ lastCall.target = "multi" /\ lastCall.coreference_context # NoneObj) =>
        LET rs == multi._coreference_recognizers
            n == Len(rs)
        IN  /\ Len(calls) = n
            /\ \A k \in 1..n :
                   /\ calls[k].recognizer = rs[k]
                   /\ calls[k].coreference_context = lastCall.coreference_context
                   /\ calls[k].utterance =
                          IF k = 1 THEN lastCall.utterance ELSE calls[k - 1].resolved
            /\ resolve(multi) = IF n = 0 THEN lastCall.utterance ELSE resolve(Instance(rs[n]))
            /\ n > 0 => calls[n].resolved = resolve(Instance(rs[n]))

\* two recognizers ran and the second was given a text the first had changed
C2_Witness ==
    /\ RecognizeCalled
    /\ lastCall.target = "multi"
    /\ lastCall.coreference_context # NoneObj
    /\ Len(calls) = 2
    /\ calls[1].resolved # lastCall.utterance
    /\ calls[2].utterance = calls[1].resolved

\* the English recognizer alone, fresh, on a context and an utterance
EnglishAlone(coreference_context, utterance) ==
    EnglishRecognize(NewEnglish, coreference_context, utterance).self

\* C3: the orchestrator over [English, pass-through] resolves to what the English
\* recognizer alone resolves, and its presumptive reference text is the English
\* recognizer's alone.
C3_OrchestratorComposition ==
    (/\ RecognizeCalled
     /\ lastCall.target = "multi"
     /\ lastCall.coreference_context # NoneObj
     /\ multi._coreference_recognizers = <<"english", "indonesian">>) =>
        LET alone == EnglishAlone(lastCall.coreference_context, lastCall.utterance)
        IN  /\ resolve(multi) = resolve(alone)
            /\ presumptive_reference_text(multi) = presumptive_reference_text(alone)

PluralDispatches ==
    { i \in 1..Len(dispatches) :
        dispatches[i].number = "plural" /\ dispatches[i].query_context # NoneObj }

C5_WholeEntity_Claimed ==
    lastCall = Called("english", K_Product, U_IsItAvailable) =>
        /\ Contains(resolve(english), W_product)
        /\ Contains(resolve(english), T_colorred)

\* the dispatches of the last recognize call made against a singular query context
SingularDispatches ==
    { i \in 1..Len(dispatches) :
        dispatches[i].number = "singular" /\ dispatches[i].query_context # NoneObj }

\* whether "<pronoun> <name>" occurs in the utterance for an item name of the list
SomeItemNamed(items, utterance) ==
    \E k \in 1..Len(items) :
        \E p \in Pronouns : Contains(<<" ">> \o utterance \o <<" ">>,
                                     <<" ">> \o p \o <<" ">> \o items[k].name \o <<" ">>)

\* C5, amended: that call leaves "Is it available" as it is, and with the primary
\* key item id = 1 makes it "Is product with id 1 available"; a singular query
\* context none of whose item names follows a pronoun in the utterance renders its
\* primary key items only, so without primary key items nothing is substituted.
C5_FallBackToPrimaryKeyOnly ==
    /\ lastCall = Called("english", K_Product, U_IsItAvailable) =>
           resolve(english) = U_IsItAvailable
    /\ lastCall = Called("english", K_ProductKeyed, U_IsItAvailable) =>
           resolve(english) = T_IsProductAvailable
    /\ (RecognizeCalled /\ lastCall.coreference_context # NoneObj) =>
           \A i \in SingularDispatches :
               LET d == dispatches[i]
                   qc == d.query_context
               IN  ~SomeItemNamed(qc.items, lastCall.utterance) =>
                       /\ Len(d.dialog_items) = Len(qc.primaryKeyItems)
                       /\ qc.primaryKeyItems = <<>> => d.after = d.before

\* a bare "it" was dispatched against the product that has an item with a value
\* and no primary key items, and nothing was substituted
C5_Witness ==
    /\ lastCall = Called("english", K_Product, U_IsItAvailable)
    /\ \E i \in SingularDispatches :
           /\ dispatches[i].query_context = ProductColor
           /\ dispatches[i].dialog_items = <<>>
    /\ resolve(english) = lastCall.utterance

\* C6: the phrase of an item with exactly one value and presumptive = true starts
\* with "There is a" and does not hold the entity name, for both values of
\* attribute_reference.
C6_PresumptivePhrase ==
    (/\ phrase.fn = "query_context_items_phrase"
     /\ phrase.presumptive
     /\ Len(phrase.item_values) = 1) =>
        /\ StartsWith(phrase.result, _PRESUMPTIVE_SINGULAR_START_PHRASE)
        /\ ~Contains(phrase.result, phrase.entity_name)

\* C7: after a recognize call with an absent context presumptive_reference_text()
\* is None, not what an earlier call left.
C7_StateReset ==
    (RecognizeCalled /\ lastCall.coreference_context = NoneObj) =>
        presumptive_reference_text(Instance(lastCall.target)) = NoneStr

\* whether every item and primary key item of the query context has no values
Valueless(query_context) ==
    /\ \A k \in 1..Len(query_context.items) : query_context.items[k].values = <<>>
    /\ \A k \in 1..Len(query_context.primaryKeyItems) :
           query_context.primaryKeyItems[k].values = <<>>

\* C8: an item with zero values adds no candidate phrase, so a singular query
\* context whose items all have zero values causes no replacement.
C8_ZeroValuesSkipped ==
    (RecognizeCalled /\ lastCall.coreference_context # NoneObj) =>
        \A i \in SingularDispatches :
            Valueless(dispatches[i].query_context) =>
                /\ dispatches[i].dialog_items = <<>>
                /\ dispatches[i].after = dispatches[i].before

\* C9: a dispatch that rendered a phrase replaces the first occurrence of the
\* matched span by the first phrase and leaves the rest of the utterance alone.
C9_FirstOccurrenceOnly ==
    (RecognizeCalled /\ lastCall.coreference_context # NoneObj) =>
        \A i \in 1..Len(dispatches) :
            LET d == dispatches[i]
            IN  d.dialog_items # <<>> =>
                    d.after = ReplaceFirst(d.before, d.matched_text, d.dialog_items[1])

\* the roles a pronoun is resolved against within one number, as the rule states it
RolesFor(pronoun, all, person_only, object_only) ==
    IF pronoun \notin all THEN <<>>
    ELSE IF pronoun \in person_only THEN <<"person">>
    ELSE IF pronoun \in object_only THEN <<"object">>
    ELSE <<"object", "person">>

\* the resolutions one match causes: <<matched text, attribute reference, number, role>>
RECURSIVE Tagged(_, _, _, _)
Tagged(matched_text, attribute_reference, number, roles) ==
    IF roles = <<>> THEN <<>>
    ELSE << <<matched_text, attribute_reference, number, Head(roles)>> >>
             \o Tagged(matched_text, attribute_reference, number, Tail(roles))

ResolutionsOf(matched_text, pronoun, attribute_reference) ==
    Tagged(matched_text, attribute_reference, "singular",
           RolesFor(pronoun, _SINGULAR_PRONOUNS, _SINGULAR_PERSON_PRONOUNS,
                    _SINGULAR_OBJECT_PRONOUNS))
      \o Tagged(matched_text, attribute_reference, "plural",
                RolesFor(pronoun, _PLURAL_PRONOUNS, _PLURAL_PERSON_PRONOUNS,
                         _PLURAL_OBJECT_PRONOUNS))

\* the resolutions of a pass over its matched texts
RECURSIVE PassResolutions(_, _)
PassResolutions(matched_texts, attribute_reference) ==
    IF matched_texts = <<>> THEN <<>>
    ELSE ResolutionsOf(Head(matched_texts),
                       IF attribute_reference THEN _match_pronoun(Head(matched_texts))
                       ELSE Head(matched_texts),
                       attribute_reference)
             \o PassResolutions(Tail(matched_texts), attribute_reference)

\* the query context of a role and number
QueryContextOf(coreference_context, number, role) ==
    IF number = "singular"
    THEN (IF role = "object" THEN coreference_context.singularObjectQueryContext
          ELSE coreference_context.singularPersonQueryContext)
    ELSE (IF role = "object" THEN coreference_context.pluralObjectQueryContext
          ELSE coreference_context.pluralPersonQueryContext)

\* C10: in both passes a match's pronoun is resolved against the object and then
\* the person query context of its number, a person-only pronoun against the person
\* one alone, an object-only pronoun against the object one alone, a pronoun of
\* neither number against none: at most two resolutions a match, and a resolution
\* against an absent query context changes nothing.
C10_PronounDispatch ==
    (RecognizeCalled /\ lastCall.coreference_context # NoneObj) =>
        LET c == lastCall.coreference_context
            doc == Doc(lastCall.utterance)
            expected == PassResolutions(_match_item_patterns(c, doc), TRUE)
                           \o PassResolutions(_match_pronouns(doc), FALSE)
        IN  /\ Len(dispatches) = Len(expected)
            /\ \A i \in 1..Len(dispatches) :
                   LET d == dispatches[i]
                   IN  /\ <<d.matched_text, d.attribute_reference, d.number, d.role>> = expected[i]
                       /\ d.query_context = QueryContextOf(c, d.number, d.role)
                       /\ d.query_context = NoneObj => d.after = d.before
            /\ \A p \in Pronouns \cup {NoneStr} : Len(ResolutionsOf(p, p, FALSE)) <= 2
            /\ \A p \in _COMMON_PERSON_PRONOUNS \cup {NoneStr} : ResolutionsOf(p, p, FALSE) = <<>>

\* a person-only pronoun was resolved once, a common one twice, one of them against
\* an absent query context
C10_Witness ==
    /\ RecognizeCalled
    /\ lastCall.coreference_context # NoneObj
    /\ Len(dispatches) = 3
    /\ dispatches[1].role = "person"
    /\ dispatches[1].after # dispatches[1].before
    /\ dispatches[2].matched_text # dispatches[1].matched_text
    /\ dispatches[2].role = "object"
    /\ dispatches[3].role = "person"
    /\ dispatches[3].matched_text = dispatches[2].matched_text
    /\ \E i \in {2, 3} : dispatches[i].query_context = NoneObj

=============================================================================
